---------------------------- MODULE Spec2Model ----------------------------
(***************************************************************************)
(* DS1820 family temperature sensor driver (DS1820.cpp / DS1820.h).        *)
(*                                                                         *)
(* The driver object (present, model_s, data, addr) is modelled together   *)
(* with the 1-Wire device it talks to (the scratchpad registers dev) and   *)
(* the transport calls each operation makes (bus).  Every public           *)
(* operation is one action.  Bytes keep their C index: byte i of a C       *)
(* array is element i+1 of the TLA+ sequence, read with At(s, i).          *)
(* Temperatures are kept in units of 1/256 degree (the float returned by   *)
(* toFloat times 256, which is exact for 16-bit operands).                 *)
(***************************************************************************)
EXTENDS Integers, Sequences, FiniteSets, TLC

VARIABLES
    present,    \* DS1820::present
    model_s,    \* DS1820::model_s
    data,       \* DS1820::data, the driver's scratchpad buffer (bytes 0..8)
    addr,       \* DS1820::addr, the ROM code found by the last search
    dev,        \* the device's scratchpad registers, bytes 0..7
    temp,       \* the caller's variable passed to read(float&), in 1/256
    ctor,       \* how the driver was constructed: "generic" or a model letter
    op,         \* the operation performed last
    arg,        \* its argument (setResolution) or 0
    ret,        \* its return value (begin: 1/0, read: 1/256 degree, read(temp): status)
    bus,        \* the transport calls it made, in order
    begun,      \* some begin() call has returned true
    hist,       \* the last read(): its value, and what was called since
    calls       \* the number of calls made on the driver so far

vars == <<present, model_s, data, addr, dev, temp, ctor, op, arg, ret, bus, begun,
          hist, calls>>

---------------------------------------------------------------------------
(* Fixed-width integer arithmetic *)

U8(x) == x % 256

U16(x) == x % 65536

\* bitwise AND of two naturals
RECURSIVE BitAnd(_, _)
BitAnd(a, b) ==
    IF a = 0 \/ b = 0 THEN 0
    ELSE (a % 2) * (b % 2) + 2 * BitAnd(a \div 2, b \div 2)

\* bitwise OR of two naturals
RECURSIVE BitOr(_, _)
BitOr(a, b) ==
    IF a = 0 THEN b
    ELSE IF b = 0 THEN a
    ELSE (IF a % 2 = 1 \/ b % 2 = 1 THEN 1 ELSE 0) + 2 * BitOr(a \div 2, b \div 2)

\* bitwise XOR of two naturals
RECURSIVE BitXor(_, _)
BitXor(a, b) ==
    IF a = 0 THEN b
    ELSE IF b = 0 THEN a
    ELSE ((a + b) % 2) + 2 * BitXor(a \div 2, b \div 2)

\* w & ~m where w is a promoted uint16_t and m a small int constant: ~m is
\* the int -m-1, whose bits below the sign bit are those of 2^31-1-m, and w
\* has no sign bit
AndNot(w, m) == BitAnd(w, 2147483647 - m)

\* byte i (C index) of a byte array
At(s, i) == s[i + 1]

\* the array s with byte i (C index) set to b
Put(s, i, b) == [s EXCEPT ![i + 1] = b]

---------------------------------------------------------------------------
(* OneWire::crc8, the Dallas/Maxim CRC-8 (polynomial x^8+x^5+x^4+1,        *)
(* reflected 0x8C), as the transport library computes it bit by bit.       *)

RECURSIVE Crc8Bits(_, _)
Crc8Bits(crc, n) ==
    IF n = 0 THEN crc
    ELSE Crc8Bits(IF crc % 2 = 1 THEN BitXor(crc \div 2, 140) ELSE crc \div 2, n - 1)

\* the lookup table of the byte-wise form: crc = table[crc ^ byte]
Crc8Table == [x \in 0..255 |-> Crc8Bits(x, 8)]

RECURSIVE Crc8From(_, _, _, _)
Crc8From(crc, s, i, len) ==
    IF i = len THEN crc
    ELSE Crc8From(Crc8Table[BitXor(crc, At(s, i))], s, i + 1, len)

\* crc8(s, len): CRC over bytes 0..len-1 of s
crc8(s, len) == Crc8From(0, s, 0, len)

---------------------------------------------------------------------------
(* Protocol constants of the driver *)

CMD_CONVERT == 68           \* 0x44, start temperature conversion
CMD_READ_SCRATCHPAD == 190  \* 0xBE
CMD_WRITE_SCRATCHPAD == 78  \* 0x4E
FAMILY_DS18S20 == 16        \* 0x10
FAMILY_DS18B20 == 40        \* 0x28
FAMILY_DS1822 == 34         \* 0x22
COUNT_PER_C == 16           \* 0x10, the value of byte 7 that enables the refinement
CFG_MASK == 96              \* 0x60, the resolution field of the configuration byte

---------------------------------------------------------------------------
(* Bounds and input sets *)

\* the number of calls made on one driver after its construction
MaxCalls == 3

\* serial numbers 1..MaxSerial are found on the bus
MaxSerial == 1

\* family codes a search may return: the three supported ones and another
FamilySet == {FAMILY_DS18S20, FAMILY_DS18B20, FAMILY_DS1822, 1}

\* the ROM serial bytes 1..6 of serial number k
SerialBytes(k) == [i \in 1..6 |-> U8(k * 37 + i * 11)]

\* a ROM code of family f and serial k whose CRC byte is off by e (0: valid)
Rom(f, k, e) ==
    LET p == <<f>> \o SerialBytes(k) IN p \o <<U8(crc8(p, 7) + e)>>

\* what the search may put into addr
SearchSet == {Rom(f, k, e) : f \in FamilySet, k \in 1..MaxSerial, e \in {0, 1}}

\* a search of a bus that holds one good device of either kind
SearchFew == {Rom(FAMILY_DS18S20, 1, 0), Rom(FAMILY_DS18B20, 1, 0)}

\* addr as a search that found nothing may leave it, besides untouched
Blank == [i \in 1..8 |-> 0]

\* raw temperature registers (bytes 0-1, little endian) a conversion may leave
RawSet == {25, 65511}

\* count-remain register values (byte 6)
RemainSet == {4, 13}

\* count-per-degree register values (byte 7)
PerCSet == {COUNT_PER_C, 12}

\* configuration register values (byte 4) of the device at power-up
ConfigSet == {31, 95, 127}

\* arguments of setResolution
BitsSet == {5, 9, 10, 11, 12, 20}

\* what a transfer may add to the CRC byte of the scratchpad (0: no error)
NoiseSet == {0, 1}

\* the model letters given to the second constructor
LetterSet == {"S", "s", "B", "b", "X"}

\* the wider register values the decoding is checked on
WideRaw ==
    {0, 1, 7, 8, 20, 25, 170, 1360, 2047, 4096, 8191, 32768, 61440, 64656,
     65511, 65535}

WideConfig == {0, 31, 32, 63, 95, 96, 127, 255}

WideRemain == {0, 4, 12, 13, 255}

---------------------------------------------------------------------------
(* The device and the transport *)

\* a transport call and the byte (or result) it carried
Call(name, v) == <<name, v>>

\* the registers of a device: temperature, TH, TL, configuration, reserved,
\* count remain, count per degree
Registers(raw, cfg, rem, perc) ==
    <<raw % 256, raw \div 256, 75, 70, cfg, 255, rem, perc>>

\* the 9 scratchpad bytes as read over the bus: the registers and their CRC,
\* the CRC byte disturbed by n
Scratchpad(d, n) == d \o <<U8(crc8(d, 8) + n)>>

\* the device after a conversion: a new temperature and count remain
Converted(d, raw, rem) ==
    Put(Put(Put(d, 0, raw % 256), 1, raw \div 256), 6, rem)

\* the device after write-scratchpad with bytes b2, b3, b4
Written(d, b2, b3, b4) == Put(Put(Put(d, 2, b2), 3, b3), 4, b4)

\* reset, skip, write(cmd)
Select(cmd) == <<Call("reset", 0), Call("skip", 0), Call("write", cmd)>>

\* for(i = 0; i < 9; i++) data[i] = oneWire.read()
ReadBytes(pad) == [i \in 1..9 |-> Call("read", pad[i])]

---------------------------------------------------------------------------
(* Temperature decoding (DS1820::read, DS1820::toFloat) *)

\* *p_word, p_word = reinterpret_cast<uint16_t*>(&data[0]) (little endian)
Word(d) == At(d, 0) + 256 * At(d, 1)

\* *p_word = w
SetWord(d, w) == Put(Put(d, 0, w % 256), 1, w \div 256)

\* Refined without the mask that drops the low four bits
Refined_NoMask(d) ==
    IF At(d, 7) = COUNT_PER_C
    THEN SetWord(d, U16(Word(d) + 12 - At(d, 6)))
    ELSE d

\* "count remain" gives full 12-bit resolution: applied to the shifted word
Refined(d) ==
    IF At(d, 7) = COUNT_PER_C
    THEN SetWord(d, U16(BitAnd(Word(d), 65520) + 12 - At(d, 6)))
    ELSE d

\* the model_s branch: 9-bit value shifted, refined by count remain
DecodeS(d) == Refined(SetWord(d, U16(Word(d) * 8)))

\* LowBits with the 10-bit and 11-bit cases exchanged
LowBits_Exchanged(cfg) ==
    IF cfg = 0 THEN 7
    ELSE IF cfg = 32 THEN 1
    ELSE IF cfg = 64 THEN 3
    ELSE 0

\* the low bits a configuration byte's resolution leaves undefined
LowBits(cfg) ==
    IF cfg = 0 THEN 7
    ELSE IF cfg = 32 THEN 3
    ELSE IF cfg = 64 THEN 1
    ELSE 0

\* the other branch: the undefined low bits of a lower resolution are cleared
DecodeB(d) ==
    SetWord(d, U16(AndNot(Word(d), LowBits(BitAnd(At(d, 4), CFG_MASK)))))

\* *p_word = *p_word << 4
Shifted(d) == SetWord(d, U16(Word(d) * 16))

\* the buffer after read() has decoded it in place
Decoded(d, s) == Shifted(IF s THEN DecodeS(d) ELSE DecodeB(d))

\* toFloat(word) * 256
toFloat(word) ==
    IF BitAnd(word, 32768) # 0
    THEN -U16((-word - 1) + 1)
    ELSE word

---------------------------------------------------------------------------
(* The operations *)

\* one more call is made
Called ==
    /\ calls < MaxCalls
    /\ calls' = calls + 1

\* what startConversion (conv) and setResolution (set) do to hist
Since(conv, set) ==
    [hist EXCEPT !.conv = @ \/ conv, !.set = @ \/ set]

\* what read() returning v does to hist, on a driver holding p and s.
\* rep tells how this read follows the one before it: 0 when that one, or
\* this one, was not made on a present driver, when the two were made on
\* different models, or when a startConversion lies between them; 1 when a
\* setResolution but no startConversion lies between them; 2 when neither does.
Reread(p, s, v) ==
    [valid |-> p, model |-> s, val |-> v, conv |-> FALSE, set |-> FALSE,
     prev |-> hist.val,
     rep |-> IF ~p \/ ~hist.valid \/ hist.model # s \/ hist.conv THEN 0
             ELSE IF hist.set THEN 1 ELSE 2]

\* PresentFor without the final else: any letter makes the driver present
PresentFor_AnyLetter(c) == TRUE

\* the present flag the constructor taking a model letter sets
PresentFor(c) == c \in {"S", "s", "B", "b"}

\* DS1820::DS1820(PinName) and DS1820::DS1820(char, PinName), of a driver
\* constructed as c on a bus whose device holds the registers d; the second
\* constructor leaves model_s unset for a letter it does not know
Constructed(c, d) ==
    /\ ctor = c
    /\ present = (c # "generic" /\ PresentFor(c))
    /\ model_s \in IF c \in {"S", "s"} THEN {TRUE}
                   ELSE IF c \in {"B", "b", "generic"} THEN {FALSE}
                   ELSE BOOLEAN
    /\ data = [i \in 1..9 |-> 255]
    /\ addr = [i \in 1..8 |-> 255]
    /\ dev = d
    /\ temp = 0
    /\ op = "ctor"
    /\ arg = 0
    /\ ret = 0
    /\ bus = <<>>
    /\ begun = FALSE
    /\ hist = [valid |-> FALSE, model |-> FALSE, val |-> 0, conv |-> FALSE,
               set |-> FALSE, prev |-> 0, rep |-> 0]
    /\ calls = 0

\* Identified with a default case that falls through to return true
Identified_AnyFamily(found, a, p, s) ==
    IF ~found
    THEN [present |-> p, model_s |-> s, ret |-> 0]
    ELSE IF crc8(a, 7) = At(a, 7)
    THEN [present |-> TRUE, model_s |-> (At(a, 0) = FAMILY_DS18S20), ret |-> 1]
    ELSE [present |-> p, model_s |-> s, ret |-> 0]

\* what begin() leaves in present and model_s and returns, after a search
\* that found the ROM code a (found) or nothing, on a driver holding p and s
Identified(found, a, p, s) ==
    IF ~found
    THEN [present |-> p, model_s |-> s, ret |-> 0]
    ELSE IF crc8(a, 7) = At(a, 7)
    THEN IF At(a, 0) = FAMILY_DS18S20
         THEN [present |-> TRUE, model_s |-> TRUE, ret |-> 1]
         ELSE IF At(a, 0) = FAMILY_DS18B20
         THEN [present |-> TRUE, model_s |-> FALSE, ret |-> 1]
         ELSE IF At(a, 0) = FAMILY_DS1822
         THEN [present |-> TRUE, model_s |-> FALSE, ret |-> 1]
         ELSE [present |-> FALSE, model_s |-> s, ret |-> 0]
    ELSE [present |-> p, model_s |-> s, ret |-> 0]

\* DS1820::begin; the search leaves a in addr, having found it or nothing
begin(found, a) ==
    \E r \in {Identified(found, a, present, model_s)} :
       /\ Called
       /\ op' = "begin"
       /\ arg' = 0
       /\ addr' = a
       /\ bus' = IF found
                 THEN <<Call("reset_search", 0), Call("search", 1)>>
                 ELSE <<Call("reset_search", 0), Call("search", 0),
                        Call("reset_search", 0)>>
       /\ present' = r.present
       /\ model_s' = r.model_s
       /\ ret' = r.ret
       /\ begun' = (begun \/ r.ret = 1)
       /\ UNCHANGED <<data, dev, temp, ctor, hist>>

\* DS1820::isPresent
isPresent ==
    /\ Called
    /\ op' = "isPresent"
    /\ arg' = 0
    /\ ret' = IF present THEN 1 ELSE 0
    /\ bus' = <<>>
    /\ UNCHANGED <<present, model_s, data, addr, dev, temp, ctor, begun, hist>>

\* the resolution setResolution(res) settles on
Resolution(res, s) ==
    IF s THEN 9
    ELSE IF res > 12 THEN 12
    ELSE IF res < 9 THEN 9
    ELSE res

\* data[4] |= (res - 9) << 5
Patched(d, r) == Put(d, 4, U8(BitOr(At(d, 4), (r - 9) * 32)))

\* DS1820::setResolution; n disturbs the scratchpad transfer (the CRC byte,
\* which setResolution never looks at)
setResolution(res, n) ==
    \E pad \in {Scratchpad(dev, n)} :
    \E d \in {Patched(pad, Resolution(res, model_s))} :
       /\ Called
       /\ op' = "setResolution"
       /\ arg' = res
       /\ ret' = 0
       /\ data' = d
       /\ bus' = Select(CMD_READ_SCRATCHPAD) \o ReadBytes(pad)
                 \o Select(CMD_WRITE_SCRATCHPAD)
                 \o <<Call("write", At(d, 2)), Call("write", At(d, 3)),
                      Call("write", At(d, 4))>>
       /\ dev' = Written(dev, At(d, 2), At(d, 3), At(d, 4))
       /\ hist' = Since(FALSE, TRUE)
       /\ UNCHANGED <<present, model_s, addr, temp, ctor, begun>>

\* ConversionCalls without the check of the present flag
ConversionCalls_Unguarded(p) == Select(CMD_CONVERT)

\* the transport calls of startConversion() on a driver whose flag is p
ConversionCalls(p) == IF p THEN Select(CMD_CONVERT) ELSE <<>>

\* DS1820::startConversion; a device that gets the command converts to (raw, rem)
startConversion(raw, rem) ==
    \E c \in {ConversionCalls(present)} :
       /\ Called
       /\ op' = "startConversion"
       /\ arg' = 0
       /\ ret' = 0
       /\ bus' = c
       /\ dev' = IF c # <<>> THEN Converted(dev, raw, rem) ELSE dev
       /\ hist' = Since(TRUE, FALSE)
       /\ UNCHANGED <<present, model_s, data, addr, temp, ctor, begun>>

\* Fetched by a loop that starts at byte 2: the word decoded in place stays
Fetched_KeepsWord(pad, old) == Put(Put(pad, 0, At(old, 0)), 1, At(old, 1))

\* the buffer after for(i = 0; i < 9; i++) data[i] = oneWire.read(), which
\* held old and is sent pad
Fetched(pad, old) == pad

\* float DS1820::read(void); n disturbs the scratchpad transfer
read(n) ==
    \E pad \in {Scratchpad(dev, n)} :
    \E d \in {Decoded(Fetched(pad, data), model_s)} :
    \E v \in {IF present THEN toFloat(Word(d)) ELSE 0} :
       /\ Called
       /\ op' = "read"
       /\ arg' = 0
       /\ bus' = IF present
                 THEN Select(CMD_READ_SCRATCHPAD) \o ReadBytes(pad)
                 ELSE <<>>
       /\ data' = IF present THEN d ELSE data
       /\ ret' = v
       /\ hist' = Reread(present, model_s, v)
       /\ UNCHANGED <<present, model_s, addr, dev, temp, ctor, begun>>

\* the result code of read(temp): 0 no errors, 1 no sensor present, 2 CRC error
Status(p, pad) ==
    IF ~p THEN 1
    ELSE IF crc8(pad, 8) # At(pad, 8) THEN 2
    ELSE 0

\* Stored without the check of the result code
Stored_Always(st, t, old) == t

\* the caller's variable after read(temp) with result code st, which held
\* old and would be given t
Stored(st, t, old) == IF st = 0 THEN t ELSE old

\* uint8_t DS1820::read(float& temp); n disturbs the scratchpad transfer
readTemp(n) ==
    \E pad \in {Scratchpad(dev, n)} :
    \E st \in {Status(present, pad)} :
    \E d \in {IF st = 0 THEN Decoded(pad, model_s) ELSE pad} :
       /\ Called
       /\ op' = "readTemp"
       /\ arg' = 0
       /\ ret' = st
       /\ bus' = IF present
                 THEN Select(CMD_READ_SCRATCHPAD) \o ReadBytes(pad)
                 ELSE <<>>
       /\ data' = IF present THEN d ELSE data
       /\ temp' = Stored(st, toFloat(Word(d)), temp)
       /\ UNCHANGED <<present, model_s, addr, dev, ctor, begun, hist>>

---------------------------------------------------------------------------
(* The driver on a device whose registers vary: conversions, resolution    *)
(* changes and disturbed transfers.                                        *)

Init ==
    \E c \in {"generic", "S", "B"}, raw \in RawSet, cfg \in ConfigSet,
       perc \in PerCSet :
       Constructed(c, Registers(raw, cfg, 4, perc))

Next ==
    \/ \E a \in SearchFew : begin(TRUE, a)
    \/ begin(FALSE, addr)
    \/ isPresent
    \/ \E res \in BitsSet : setResolution(res, 0)
    \/ \E raw \in RawSet : startConversion(raw, 13)
    \/ \E n \in NoiseSet : read(n)
    \/ \E n \in NoiseSet : readTemp(n)

Spec == Init /\ [][Next]_vars

---------------------------------------------------------------------------
(* The driver's identity: every constructor, every outcome of the search.  *)

InitIdentity ==
    \E c \in {"generic"} \cup LetterSet :
       Constructed(c, Registers(25, 127, 4, COUNT_PER_C))

NextIdentity ==
    \/ \E a \in SearchSet : begin(TRUE, a)
    \/ \E a \in {addr, Blank} : begin(FALSE, a)
    \/ isPresent
    \/ setResolution(12, 0)
    \/ startConversion(65511, 13)
    \/ read(0)
    \/ readTemp(0)

SpecIdentity == InitIdentity /\ [][NextIdentity]_vars

---------------------------------------------------------------------------
(* The decoding: a driver of known model on every register value of the    *)
(* wide sets.                                                              *)

InitDecode ==
    \/ \E raw \in WideRaw, cfg \in WideConfig :
          Constructed("B", Registers(raw, cfg, 4, COUNT_PER_C))
    \/ \E raw \in WideRaw, cfg \in {31, 255}, rem \in WideRemain, perc \in PerCSet :
          Constructed("S", Registers(raw, cfg, rem, perc))

NextDecode ==
    \/ begin(TRUE, Rom(FAMILY_DS1822, 1, 0))
    \/ begin(FALSE, addr)
    \/ isPresent
    \/ setResolution(10, 0)
    \/ startConversion(1360, 12)
    \/ read(0)
    \/ readTemp(0)

SpecDecode == InitDecode /\ [][NextDecode]_vars

---------------------------------------------------------------------------
(* Observations the properties are stated with *)

\* byte i of the scratchpad as the last operation read it over the bus
\* (bus entries 4..12 of an operation that began with reset, skip, 0xBE)
ReadByte(i) == bus[i + 4][2]

\* the 9 bytes the last operation read over the bus
ReadPad == [i \in 1..9 |-> bus[i + 3][2]]

\* the raw 16-bit temperature of those bytes
ReadRaw == ReadByte(0) + 256 * ReadByte(1)

\* the two's-complement reading of a 16-bit word
Signed16(w) == IF w >= 32768 THEN w - 65536 ELSE w

\* v with its low k bits cleared
ClearLow(v, k) == v - (v % (2 ^ k))

\* the resolution field (bits 5-6) of a configuration byte
Field(b) == (b \div 32) % 4

\* clamp(bits, 9, 12)
Clamp(bits) == IF bits < 9 THEN 9 ELSE IF bits > 12 THEN 12 ELSE bits

\* the B-family temperature of raw value v under configuration byte b4
ExpectB(v, b4) == Signed16((ClearLow(v, 3 - Field(b4)) * 16) % 65536)

\* the S-family temperature of raw value v, count remain b6, count per degree b7
ExpectS(v, b6, b7) ==
    IF b7 = 16
    THEN Signed16((((ClearLow((v * 8) % 65536, 4) + 12 - b6) % 65536) * 16) % 65536)
    ELSE Signed16((v * 128) % 65536)

\* the supported family codes
Supported == {16, 40, 34}

---------------------------------------------------------------------------
(* Properties *)

\* C1: setResolution on a driver whose present flag is false is a no-op: it
\* makes no transport call (so nothing is written to the device).
C1_SetResolutionNoOp ==
    (op = "setResolution" /\ ~present) => bus = <<>>

\* C2: after setResolution(bits) on a present driver the third byte written
\* after the 0x4E command has its resolution field equal to
\* clamp(bits, 9, 12) - 9 on a B-family driver and 0 on an S-family driver,
\* whatever the device's configuration byte was.
C2_ResolutionField ==
    (op = "setResolution" /\ present) =>
        /\ bus[Len(bus) - 3] = <<"write", 78>>
        /\ Field(bus[Len(bus)][2]) = IF model_s THEN 0 ELSE Clamp(arg) - 9

\* C3: begin returns true exactly when the search found an address of a
\* supported family whose CRC over bytes 0..6 equals byte 7; it returns false
\* for any other family and when the search found nothing.
C3_BeginResult ==
    op = "begin" =>
        /\ bus[2] = <<"search", 1>> /\ At(addr, 0) \in Supported
              => (ret = 1 <=> crc8(addr, 7) = At(addr, 7))
        /\ bus[2] = <<"search", 1>> /\ At(addr, 0) \notin Supported => ret = 0
        /\ bus[2] = <<"search", 0>> => ret = 0

C3_Witness ==
    /\ ctor = "generic"
    /\ op = "begin"
    /\ ret = 1
    /\ bus[2] = <<"search", 1>>
    /\ At(addr, 0) = 34

\* C4: read(temp) returns 1 and leaves temp alone on a driver that is not
\* present, returns 2 and leaves temp alone when the CRC over scratchpad
\* bytes 0..7 differs from byte 8, and otherwise returns 0 and stores the
\* decoded temperature in temp.
C4_ReadTempStatus ==
    [][op' = "readTemp" =>
        IF ~present THEN ret' = 1 /\ temp' = temp
        ELSE IF crc8(ReadPad', 8) # At(ReadPad', 8) THEN ret' = 2 /\ temp' = temp
        ELSE /\ ret' = 0
             /\ temp' = IF model_s
                        THEN ExpectS(ReadRaw', ReadByte(6)', ReadByte(7)')
                        ELSE ExpectB(ReadRaw', ReadByte(4)')]_vars

C4_Witness ==
    /\ op = "readTemp"
    /\ ret = 2
    /\ temp # 0

\* C5: isPresent() is true only if an earlier begin returned true or the
\* driver was constructed with model letter S, s, B or b; isPresent returns
\* the flag.
C5_PresentOnlyIfIdentified ==
    /\ present => (begun \/ ctor \in {"S", "s", "B", "b"})
    /\ op = "isPresent" => (ret = 1 <=> present)

C5_Witness ==
    /\ op = "isPresent"
    /\ ret = 1
    /\ ctor = "generic"
    /\ begun

\* C6: on a driver that is not present startConversion and read make no
\* transport call and read returns 0; on a present driver startConversion
\* issues reset, skip, write 0x44 and read issues reset, skip, write 0xBE and
\* then exactly 9 byte reads.
C6_CallSequences ==
    /\ op = "startConversion" =>
          bus = IF present
                THEN <<(<<"reset", 0>>), (<<"skip", 0>>), (<<"write", 68>>)>>
                ELSE <<>>
    /\ op = "read" =>
          IF present
          THEN /\ Len(bus) = 12
               /\ SubSeq(bus, 1, 3) = <<(<<"reset", 0>>), (<<"skip", 0>>), (<<"write", 190>>)>>
               /\ \A i \in 4..12 : bus[i][1] = "read"
          ELSE bus = <<>> /\ ret = 0

C6_Witness ==
    /\ op = "read"
    /\ present
    /\ begun
    /\ Len(bus) = 12

\* C7: on a present B-family driver read returns the signed 16-bit reading
\* of ((v AND NOT m) << 4) mod 2^16, in 1/256 degree, where v is the raw value
\* of scratchpad bytes 0-1 and m = 7, 3, 1, 0 for byte4 & 0x60 = 0x00, 0x20,
\* 0x40, 0x60; the word 0x0190 is +400/256 and 0xFE70 is -400/256.
C7_DecodeB ==
    /\ (op = "read" /\ present /\ ~model_s) => ret = ExpectB(ReadRaw, ReadByte(4))
    /\ toFloat(400) = 400
    /\ toFloat(65136) = -400

C7_Witness ==
    /\ op = "read"
    /\ present
    /\ ~model_s
    /\ ReadRaw = 65511
    /\ Field(ReadByte(4)) = 1
    /\ ret = -448

\* C8: on a present S-family driver read returns, in 1/256 degree, the signed
\* 16-bit reading of the raw value shifted by 3, refined to
\* (raw AND 0xFFF0) + 12 - byte6 when byte7 is 0x10, and shifted by 4; the
\* configuration byte has no influence.
C8_DecodeS ==
    (op = "read" /\ present /\ model_s) =>
        ret = ExpectS(ReadRaw, ReadByte(6), ReadByte(7))

C8_Witness ==
    /\ op = "read"
    /\ present
    /\ model_s
    /\ ReadRaw = 20
    /\ ReadByte(6) = 4
    /\ ReadByte(7) = 16
    /\ ret = 2688

C10_IdentityValid ==
    (ctor = "generic" /\ present) =>
        /\ crc8(addr, 7) = At(addr, 7)
        /\ At(addr, 0) \in Supported
        /\ model_s <=> At(addr, 0) = 16

=============================================================================
